---- MODULE Spec2Model ----
(***************************************************************************)
(* Model of the road-condition pipeline of Nav-app:                        *)
(*   - the Spatial Aggregation Engine: POST /api/community/speed-bumps     *)
(*     (src/server/routes/community.ts) over the SQLite tables of          *)
(*     src/unnamed/part_000;                                               *)
(*   - the Live Fan-Out Hub (src/server/websocket.ts);                     *)
(*   - the Motion Event Detector (src/src/contexts/AccelerometerContext).  *)
(*   - the hub client's reconnect logic: WebSocketProvider                  *)
(*     (src/src/context/RouteContext.tsx).                                 *)
(* Coordinates are integers in units of 1e-5 degree, distances in cm,      *)
(* accelerations in units of 0.01 m/s^2, times in ms.  The baseline is an   *)
(* exact fraction: x/d, y/d, z/d.                                          *)
(***************************************************************************)
EXTENDS Integers, Sequences, FiniteSets

VARIABLES
    \* ---- aggregation engine (server, SQLite) ----
    records,      \* community_speed_bumps: sequence of rows, id = index
    traffic,      \* community_traffic_data: sequence of rows
    pc,           \* per request handler: position in router.post('/speed-bumps')
    ev,           \* per request handler: req.body
    existing,     \* per request handler: the row dbGet resolved (existingBump)
    resp,         \* per request handler: the response sent by res.json / res.status
    submitted,    \* number of requests received so far
    contributed,  \* history: per row, the sum of the intensities merged into it
    merged,       \* history: the events whose INSERT or UPDATE has completed
    merges,       \* history: the number of INSERTs and UPDATEs completed
    listing,      \* the last response of router.get('/speed-bumps') and its query
    \* ---- fan-out hub (server, ws) ----
    clients,      \* wss.clients: per connection its readyState, sessionId, isAlive
    sent,         \* the ws.send calls made by the last hub step
    lastMsg,      \* the inbound message the last hub step handled
    \* ---- motion event detector (client, AccelerometerProvider) ----
    now,                      \* Date.now()
    isMonitoring,             \* useState(false)
    isCalibrated,             \* useState(false)
    currentData,              \* useState(null): whether a sample is on display
    baseline,                 \* useState({ x: 0, y: 0, z: 9.81 })
    sensitivity,              \* useState(2.5)
    lastSignificantMovement,  \* useState(0)
    movementBuffer,           \* useState([]): the magnitudes of the buffered samples
    handleDeviceMotion,       \* the memoized handleDeviceMotion of the current render
    listeners,                \* the handleDeviceMotion closures registered on window
    calibration,              \* the calibrate() run in progress
    starting,                 \* the startMonitoring call awaiting calibrate()
    positionRequests,         \* getCurrentPosition calls not yet answered
    emitted,                  \* the CandidateEvents sent with sendSpeedBumpDetection
    discarded,                \* history: the detections whose position request failed
    samples,                  \* number of devicemotion events delivered so far
    \* ---- hub client (browser, WebSocketProvider) ----
    ws,                 \* the WebSocket last created and the closure that made it
    isConnected,        \* useState(false)
    connectionStatus,   \* useState('disconnected')
    reconnectAttempts,  \* useState(0)
    reconnectTimer,     \* the pending setTimeout of scheduleReconnect
    reconnects,         \* history: connect() calls by the timer since the last onopen
    sockets             \* history: the number of WebSockets created so far

aggVars == << records, traffic, pc, ev, existing, resp, submitted, contributed, merged,
             merges, listing >>
hubVars == << clients, sent, lastMsg >>
detVars == << now, isMonitoring, isCalibrated, currentData, baseline, sensitivity,
             lastSignificantMovement, movementBuffer, handleDeviceMotion, listeners,
             calibration, starting, positionRequests, emitted, discarded, samples >>
cliVars == << ws, isConnected, connectionStatus, reconnectAttempts, reconnectTimer,
             reconnects, sockets >>
vars == << aggVars, hubVars, detVars, cliVars >>

-----------------------------------------------------------------------------
(* Bounds and inputs *)

\* Number of requests the model receives in one behaviour.
MaxSubmissions == 3

\* Concurrent request handlers (express runs each request as its own async call).
Procs == {"r1", "r2"}

\* Event coordinates in 1e-5 degree.  PA = (37.77500, -122.41940) and
\* PB = (37.77502, -122.41941) are the two events of the documented scenario;
\* PC = (37.77500, -122.41889) is 0.00051 degree east of PA;
\* PD = (37.77500, -122.41916) lies between them, inside the match box of each
\* of the three: |PD-PA| = 24, |PD-PB| = 2 + 25, |PD-PC| = 27.
PA == << 3777500, -12241940 >>
PB == << 3777502, -12241941 >>
PC == << 3777500, -12241889 >>
PD == << 3777500, -12241916 >>
Points == { PA, PB, PC, PD }

\* Reported intensities.
Intensities == { 6, 7, 8 }

\* A request body the validation rejects (intensity 0).
InvalidEvent == [ latitude |-> PA[1], longitude |-> PA[2], intensity |-> 0 ]

Events == { [ latitude |-> p[1], longitude |-> p[2], intensity |-> i ] :
              p \in Points, i \in Intensities } \cup { InvalidEvent }

\* The value of a field the request body lacks (undefined), as a number no
\* coordinate or intensity takes.
Undefined == -999999999

\* Request bodies the validation is given: two events, and bodies with a zero
\* or an absent latitude, longitude or intensity.
Bodies == { [ latitude |-> PA[1], longitude |-> PA[2], intensity |-> 6 ],
            [ latitude |-> PB[1], longitude |-> PB[2], intensity |-> 8 ],
            InvalidEvent,
            [ latitude |-> 0, longitude |-> PA[2], intensity |-> 6 ],
            [ latitude |-> PA[1], longitude |-> Undefined, intensity |-> 6 ],
            [ latitude |-> PA[1], longitude |-> PA[2], intensity |-> Undefined ] }

\* The request bodies of the concurrent submissions: the events at PA, PB and PC.
RaceEvents == { e \in Events : << e.latitude, e.longitude >> # PD }

\* Client connections, the session ids they declare, session statuses, and the
\* events carried by speed_bump_detected messages.
Conns == { "c1", "c2", "c3" }
Sessions == { "s1", "s2" }
Statuses == { "started", "completed" }
HubEvents == { [ latitude |-> PA[1], longitude |-> PA[2], intensity |-> 6 ],
               [ latitude |-> PB[1], longitude |-> PB[2], intensity |-> 8 ] }

\* The bounding boxes of the queries, [south, north] x [west, east]: 0.0001
\* degree around PA, 0.0001 degree around PD, and one that holds every point.
Boxes == { [ south |-> PA[1] - 10, north |-> PA[1] + 10,
             west |-> PA[2] - 10, east |-> PA[2] + 10 ],
           [ south |-> PD[1] - 10, north |-> PD[1] + 10,
             west |-> PD[2] - 10, east |-> PD[2] + 10 ],
           [ south |-> 3777000, north |-> 3778000,
             west |-> -12242500, east |-> -12241500 ] }

\* The request bodies of the submissions that are followed by queries.
QueryEvents == { [ latitude |-> p[1], longitude |-> p[2], intensity |-> 7 ] :
                   p \in { PA, PC, PD } }

None == [ id |-> 0, verified_count |-> 0 ]
NoBox == [ south |-> 0, north |-> 0, west |-> 0, east |-> 0 ]
NoListing == [ box |-> NoBox, rows |-> {} ]
NoResp == [ kind |-> "none", verifications |-> 0 ]
NoEvent == [ latitude |-> 0, longitude |-> 0, intensity |-> 0 ]
NoClient == [ readyState |-> "CLOSED", sessionId |-> "none", isAlive |-> FALSE ]
NoMsg == [ type |-> "none", from |-> "none", sessionId |-> "none", status |-> "none",
           event |-> NoEvent ]

-----------------------------------------------------------------------------
(* Motion event detector: constants and inputs *)

\* devicemotion events delivered in one behaviour, clock ticks in one
\* behaviour, and handleDeviceMotion closures created after the first.
MaxSamples == 7
MaxTicks == 2
MaxHandlers == 2

\* devicemotion events delivered in one behaviour of the calibration alone.
MaxCalibrationSamples == 51

bufferSize == 20
detectionCooldown == 3000
sampleCount == 50
CalibrationTimeout == 5000
MinTimeoutSamples == 10
RecentWindow == 5
DefaultSensitivity == 250
DefaultBaseline == [ x |-> 0, y |-> 0, z |-> 981, d |-> 1 ]

\* Date.now() when the provider mounts, and the granularity of the clock.
StartTime == 100000
TickMs == CalibrationTimeout

\* accelerationIncludingGravity readings: the device at rest, and a vertical
\* jolt of 2 m/s^2.
Rest == [ x |-> 0, y |-> 0, z |-> 981 ]
Jolt == [ x |-> 0, y |-> 0, z |-> 1181 ]
Readings == { Rest, Jolt }

\* The values of the sensitivity slider used (its range is 1.0 to 5.0).
Sensitivities == { 150, 250 }

NoHandler == [ id |-> -1, baseline |-> DefaultBaseline, sensitivity |-> 0,
               buffer |-> << >>, lastSig |-> 0 ]
NoCalibration == [ phase |-> "idle", n |-> 0, sum |-> [ x |-> 0, y |-> 0, z |-> 0 ],
                   deadline |-> 0 ]
NotStarting == [ active |-> FALSE, handler |-> NoHandler ]

-----------------------------------------------------------------------------
(* Hub client: constants and inputs *)

\* WebSockets the client creates in one behaviour.
MaxSockets == 8

maxReconnectAttempts == 5

\* The connect and scheduleReconnect callbacks of one render: the values of ws
\* and reconnectAttempts they captured.  The mount effect, useEffect(..., []),
\* calls the connect of the first render.
MountClosure == [ ws |-> "null", reconnectAttempts |-> 0 ]
NoTimer == [ pending |-> FALSE, closure |-> MountClosure ]

-----------------------------------------------------------------------------
(* Pure functions *)

Abs(x) == IF x < 0 THEN -x ELSE x

\* The bounding-box half width of the lookup: 0.0005 degree.
MatchBox == 50

\* WHERE ABS(latitude - ?) < 0.0005 AND ABS(longitude - ?) < 0.0005
InMatchBoxLatOnly(r, lat, lon) == Abs(r.latitude - lat) < MatchBox
InMatchBox(r, lat, lon) ==
    /\ Abs(r.latitude - lat) < MatchBox
    /\ Abs(r.longitude - lon) < MatchBox

\* ORDER BY ABS(latitude - ?) + ABS(longitude - ?)
Manhattan(r, lat, lon) == Abs(r.latitude - lat) + Abs(r.longitude - lon)

\* The SELECT of the lookup: the id and verified_count of the matching row of
\* minimal Manhattan distance (the lowest rowid among equals), or None.
LookupFirstRow(rows, lat, lon) ==
    LET m == { i \in 1..Len(rows) : InMatchBox(rows[i], lat, lon) }
    IN  IF m = {} THEN None
        ELSE LET first == CHOOSE i \in m : \A j \in m : i <= j
             IN  [ id |-> first, verified_count |-> rows[first].verified_count ]
Lookup(rows, lat, lon) ==
    LET m == { i \in 1..Len(rows) : InMatchBox(rows[i], lat, lon) }
    IN  IF m = {} THEN None
        ELSE LET best == CHOOSE i \in m : \A j \in m :
                            \/ Manhattan(rows[i], lat, lon) < Manhattan(rows[j], lat, lon)
                            \/ /\ Manhattan(rows[i], lat, lon) = Manhattan(rows[j], lat, lon)
                               /\ i <= j
             IN  [ id |-> best, verified_count |-> rows[best].verified_count ]

\* ROUND((intensity * verified_count + ?) / (verified_count + 1)) as SQLite
\* evaluates it: intensity and verified_count are INTEGER columns and the bound
\* intensity is a whole number, so "/" is integer division (truncation) and
\* ROUND receives an integer.
MergedIntensityLast(old, cnt, i) == i
MergedIntensity(old, cnt, i) == (old * cnt + i) \div (cnt + 1)

\* The UPDATE of a matched row: both SET expressions read the row as it is
\* when the statement runs.
UpdateRow(r, i) ==
    [ r EXCEPT !.verified_count = r.verified_count + 1,
               !.intensity = MergedIntensity(r.intensity, r.verified_count, i) ]

\* The INSERT of a new row.
NewRow(e) ==
    [ latitude |-> e.latitude, longitude |-> e.longitude,
      intensity |-> e.intensity, verified_count |-> 1 ]

\* !x for a number or an absent field.
Falsy(x) == x = 0 \/ x = Undefined

\* if (!latitude || !longitude || !intensity) -> 400
ValidCoordinates(e) == ~ Falsy(e.latitude) /\ ~ Falsy(e.longitude)
Valid(e) == ~ Falsy(e.latitude) /\ ~ Falsy(e.longitude) /\ ~ Falsy(e.intensity)

\* calculateDistance (haversine, R = 6371e3 m) for points a few hundred metres
\* apart near latitude 37.775: 1e-5 degree of latitude is R*pi/180*1e-5 = 111 cm
\* and 1e-5 degree of longitude is 111.19 cm * cos(37.775 deg) = 88 cm.  The
\* square of the distance in cm.
LatCm == 111
LonCm == 88
Distance2(a, b) ==
    (LatCm * (a.latitude - b.latitude)) * (LatCm * (a.latitude - b.latitude))
    + (LonCm * (a.longitude - b.longitude)) * (LonCm * (a.longitude - b.longitude))

\* The merge radius: 50 m.
MergeRadiusCm == 5000

\* Math.round of the non-negative quotient a / b.
Round(a, b) == (2 * a + b) \div (2 * b)

\* ROUND(x, 4) of a coordinate x given in 1e-5 degree, in 1e-4 degree: the
\* nearest multiple of 0.0001, halves away from zero.
Round4(x) == IF x < 0 THEN -((5 - x) \div 10) ELSE (x + 5) \div 10

\* WHERE latitude BETWEEN south AND north AND longitude BETWEEN west AND east
InBox(r, box) ==
    /\ box.south <= r.latitude /\ r.latitude <= box.north
    /\ box.west <= r.longitude /\ r.longitude <= box.east

Min(a, b) == IF a < b THEN a ELSE b

\* SUM over a group of rows: f maps the row ids to the summed column.
RECURSIVE SumOver(_, _)
SumOver(f, ids) ==
    IF ids = {} THEN 0
    ELSE LET i == CHOOSE j \in ids : TRUE
         IN  f[i] + SumOver(f, ids \ { i })

\* The SELECT of the query and the formatting of its rows: one row per group
\* of ROUND(latitude, 4), ROUND(longitude, 4) among the rows inside the box.
\* The ORDER BY of the rows is left out: the response is taken as a set.
SpeedBumpsIn(rows, box) ==
    LET inside == { i \in 1..Len(rows) : InBox(rows[i], box) }
        keys == { << Round4(rows[i].latitude), Round4(rows[i].longitude) >> : i \in inside }
        group(k) == { i \in inside : << Round4(rows[i].latitude),
                                        Round4(rows[i].longitude) >> = k }
        total(k) == SumOver([ i \in group(k) |-> rows[i].verified_count ], group(k))
    IN  { [ latitude |-> k[1], longitude |-> k[2],
            intensity |-> Round(SumOver([ i \in group(k) |-> rows[i].intensity ], group(k)),
                                Cardinality(group(k))),
            verifications |-> total(k),
            reports |-> Cardinality(group(k)),
            confidence |-> Min(total(k) * 10, 100) ] : k \in keys }

-----------------------------------------------------------------------------
(* Aggregation engine: router.post('/speed-bumps') *)

Init ==
    /\ records = << >>
    /\ traffic = << >>
    /\ pc = [ p \in Procs |-> "idle" ]
    /\ ev = [ p \in Procs |-> NoEvent ]
    /\ existing = [ p \in Procs |-> None ]
    /\ resp = [ p \in Procs |-> NoResp ]
    /\ submitted = 0
    /\ contributed = << >>
    /\ merged = {}
    /\ merges = 0
    /\ listing = NoListing
    /\ clients = [ c \in Conns |-> NoClient ]
    /\ sent = {}
    /\ lastMsg = NoMsg
    /\ now = StartTime
    /\ isMonitoring = FALSE
    /\ isCalibrated = FALSE
    /\ currentData = FALSE
    /\ baseline = DefaultBaseline
    /\ sensitivity = DefaultSensitivity
    /\ lastSignificantMovement = 0
    /\ movementBuffer = << >>
    /\ handleDeviceMotion = [ id |-> 0, baseline |-> DefaultBaseline,
                              sensitivity |-> DefaultSensitivity,
                              buffer |-> << >>, lastSig |-> 0 ]
    /\ listeners = << >>
    /\ calibration = NoCalibration
    /\ starting = NotStarting
    /\ positionRequests = << >>
    /\ emitted = << >>
    /\ discarded = << >>
    /\ samples = 0
    /\ ws = [ readyState |-> "CONNECTING", closure |-> MountClosure ]
    /\ isConnected = FALSE
    /\ connectionStatus = "connecting"
    /\ reconnectAttempts = 0
    /\ reconnectTimer = NoTimer
    /\ reconnects = 0
    /\ sockets = 1

\* The request arrives: validation, then the lookup is issued.
Receive(p, e) ==
    /\ pc[p] = "idle"
    /\ submitted < MaxSubmissions
    /\ submitted' = submitted + 1
    /\ IF Valid(e)
         THEN /\ pc' = [ pc EXCEPT ![p] = "lookup" ]
              /\ ev' = [ ev EXCEPT ![p] = e ]
              /\ resp' = [ resp EXCEPT ![p] = NoResp ]
         ELSE /\ pc' = [ pc EXCEPT ![p] = "idle" ]
              /\ ev' = ev
              /\ resp' = [ resp EXCEPT ![p] = [ kind |-> "rejected", verifications |-> 0 ] ]
    /\ UNCHANGED << records, traffic, existing, contributed, merged, merges,
                    listing, hubVars, detVars, cliVars >>

\* await dbGet(...) resolves.
DoLookup(p) ==
    /\ pc[p] = "lookup"
    /\ existing' = [ existing EXCEPT ![p] = Lookup(records, ev[p].latitude, ev[p].longitude) ]
    /\ pc' = [ pc EXCEPT ![p] = "write" ]
    /\ UNCHANGED << records, traffic, ev, resp, submitted, contributed, merged, merges,
                    listing, hubVars, detVars, cliVars >>

\* await dbRun(UPDATE ...) or await dbRun(INSERT ...) resolves and the response
\* is sent.
WriteLookedUpCount(p) ==
    /\ pc[p] = "write"
    /\ IF existing[p] # None
         THEN /\ records' = [ records EXCEPT ![existing[p].id] =
                               [ UpdateRow(@, ev[p].intensity) EXCEPT
                                   !.verified_count = existing[p].verified_count + 1 ] ]
              /\ contributed' = [ contributed EXCEPT ![existing[p].id] = @ + ev[p].intensity ]
              /\ resp' = [ resp EXCEPT ![p] =
                             [ kind |-> "verified",
                               verifications |-> existing[p].verified_count + 1 ] ]
         ELSE /\ records' = Append(records, NewRow(ev[p]))
              /\ contributed' = Append(contributed, ev[p].intensity)
              /\ resp' = [ resp EXCEPT ![p] = [ kind |-> "created", verifications |-> 1 ] ]
    /\ merged' = merged \cup { ev[p] }
    /\ merges' = merges + 1
    /\ pc' = [ pc EXCEPT ![p] = "traffic" ]
    /\ UNCHANGED << traffic, ev, existing, submitted, listing, hubVars, detVars, cliVars >>
Write(p) ==
    /\ pc[p] = "write"
    /\ IF existing[p] # None
         THEN /\ records' = [ records EXCEPT ![existing[p].id] = UpdateRow(@, ev[p].intensity) ]
              /\ contributed' = [ contributed EXCEPT ![existing[p].id] = @ + ev[p].intensity ]
              /\ resp' = [ resp EXCEPT ![p] =
                             [ kind |-> "verified",
                               verifications |-> existing[p].verified_count + 1 ] ]
         ELSE /\ records' = Append(records, NewRow(ev[p]))
              /\ contributed' = Append(contributed, ev[p].intensity)
              /\ resp' = [ resp EXCEPT ![p] = [ kind |-> "created", verifications |-> 1 ] ]
    /\ merged' = merged \cup { ev[p] }
    /\ merges' = merges + 1
    /\ pc' = [ pc EXCEPT ![p] = "traffic" ]
    /\ UNCHANGED << traffic, ev, existing, submitted, listing, hubVars, detVars, cliVars >>

\* await contributeToTrafficData(latitude, longitude, userId)
ContributeToTrafficDataOnCreate(p) ==
    /\ pc[p] = "traffic"
    /\ traffic' = IF existing[p] # None THEN traffic
                  ELSE Append(traffic, [ latitude |-> ev[p].latitude,
                                         longitude |-> ev[p].longitude, speed |-> 0 ])
    /\ pc' = [ pc EXCEPT ![p] = "idle" ]
    /\ ev' = [ ev EXCEPT ![p] = NoEvent ]
    /\ existing' = [ existing EXCEPT ![p] = None ]
    /\ UNCHANGED << records, resp, submitted, contributed, merged, merges,
                    listing, hubVars, detVars, cliVars >>
ContributeToTrafficData(p) ==
    /\ pc[p] = "traffic"
    /\ traffic' = Append(traffic, [ latitude |-> ev[p].latitude,
                                    longitude |-> ev[p].longitude, speed |-> 0 ])
    /\ pc' = [ pc EXCEPT ![p] = "idle" ]
    /\ ev' = [ ev EXCEPT ![p] = NoEvent ]
    /\ existing' = [ existing EXCEPT ![p] = None ]
    /\ UNCHANGED << records, resp, submitted, contributed, merged, merges,
                    listing, hubVars, detVars, cliVars >>

\* Requests handled concurrently: the handlers interleave at their awaits.
NextConc ==
    \E p \in Procs :
        \/ \E e \in RaceEvents : Receive(p, e)
        \/ DoLookup(p)
        \/ Write(p)
        \/ ContributeToTrafficData(p)

SpecConc == Init /\ [][NextConc]_vars

\* Requests handled one at a time: a request arrives only when no handler runs.
ReceiveSeq(p, e) ==
    /\ \A q \in Procs : pc[q] = "idle"
    /\ Receive(p, e)

NextSeq ==
    \E p \in Procs :
        \/ \E e \in Events : ReceiveSeq(p, e)
        \/ DoLookup(p)
        \/ Write(p)
        \/ ContributeToTrafficData(p)

SpecSeq == Init /\ [][NextSeq]_vars

\* Concurrent submissions with bodies the validation rejects among them.
NextIntake ==
    \E p \in Procs :
        \/ \E e \in Bodies : Receive(p, e)
        \/ DoLookup(p)
        \/ Write(p)
        \/ ContributeToTrafficData(p)

SpecIntake == Init /\ [][NextIntake]_vars

\* router.get('/speed-bumps') with all four box parameters present: the
\* SELECT resolves and the response is sent.
GetSpeedBumps(box) ==
    /\ listing' = [ box |-> box, rows |-> SpeedBumpsIn(records, box) ]
    /\ UNCHANGED << records, traffic, pc, ev, existing, resp, submitted, contributed,
                    merged, merges, hubVars, detVars, cliVars >>

\* Submissions handled one at a time, and queries between them.
NextQuery ==
    \/ \E p \in Procs :
        \/ \E e \in QueryEvents : ReceiveSeq(p, e)
        \/ DoLookup(p)
        \/ Write(p)
        \/ ContributeToTrafficData(p)
    \/ \E box \in Boxes : GetSpeedBumps(box)

SpecQuery == Init /\ [][NextQuery]_vars

-----------------------------------------------------------------------------
(* Fan-out hub: setupWebSocket *)

\* wss.clients: the sockets the server holds, open or closing.
WssClients == { c \in Conns : clients[c].readyState # "CLOSED" }

\* One client.send(messageString): the envelope as connection d receives it.
Envelope(d, msg) ==
    [ to |-> d, type |-> msg.type, from |-> msg.from, sessionId |-> msg.sessionId,
      status |-> msg.status, event |-> msg.event ]

\* broadcastToAll(wss, message)
BroadcastToAllButSender(msg) ==
    { Envelope(d, msg) : d \in { c \in WssClients :
                                   c # msg.from /\ clients[c].readyState = "OPEN" } }
BroadcastToAllInSession(msg) ==
    { Envelope(d, msg) : d \in { c \in WssClients :
                                   /\ clients[c].readyState = "OPEN"
                                   /\ clients[c].sessionId = msg.sessionId } }
BroadcastToAll(msg) ==
    { Envelope(d, msg) : d \in { c \in WssClients : clients[c].readyState = "OPEN" } }

\* broadcastToOthers(wss, sender, message)
BroadcastToOthersAndSender(sender, msg) ==
    { Envelope(d, msg) : d \in { c \in WssClients : clients[c].readyState = "OPEN" } }
BroadcastToOthers(sender, msg) ==
    { Envelope(d, msg) : d \in { c \in WssClients :
                                   c # sender /\ clients[c].readyState = "OPEN" } }

\* wss.on('connection'): the socket joins wss.clients and is sent the welcome.
Connection(c) ==
    /\ clients[c].readyState = "CLOSED"
    /\ clients' = [ clients EXCEPT ![c] = [ readyState |-> "OPEN", sessionId |-> "none",
                                            isAlive |-> TRUE ] ]
    /\ lastMsg' = [ NoMsg EXCEPT !.type = "connection", !.from = c ]
    /\ sent' = { Envelope(c, [ NoMsg EXCEPT !.type = "connected" ]) }
    /\ UNCHANGED << aggVars, detVars, cliVars >>

\* The closing handshake starts (the client closes): the socket stays in
\* wss.clients with readyState CLOSING.
Closing(c) ==
    /\ clients[c].readyState = "OPEN"
    /\ clients' = [ clients EXCEPT ![c].readyState = "CLOSING" ]
    /\ lastMsg' = [ NoMsg EXCEPT !.type = "closing", !.from = c ]
    /\ sent' = {}
    /\ UNCHANGED << aggVars, detVars, cliVars >>

\* ws.on('close'): the socket leaves wss.clients.
Close(c) ==
    /\ clients[c].readyState # "CLOSED"
    /\ clients' = [ clients EXCEPT ![c] = NoClient ]
    /\ lastMsg' = [ NoMsg EXCEPT !.type = "close", !.from = c ]
    /\ sent' = {}
    /\ UNCHANGED << aggVars, detVars, cliVars >>

\* handleLocationUpdate(ws, message, wss)
HandleLocationUpdate(c, s) ==
    /\ clients[c].readyState = "OPEN"
    /\ clients' = [ clients EXCEPT ![c].sessionId = s ]
    /\ lastMsg' = [ NoMsg EXCEPT !.type = "location_update", !.from = c, !.sessionId = s ]
    /\ sent' = BroadcastToOthers(c, [ NoMsg EXCEPT !.type = "live_location", !.from = c,
                                                   !.sessionId = s ])
               \cup { Envelope(c, [ NoMsg EXCEPT !.type = "location_update_ack",
                                                 !.sessionId = s ]) }
    /\ UNCHANGED << aggVars, detVars, cliVars >>

\* handleSpeedBumpDetection(ws, message, wss)
HandleSpeedBumpDetection(c, s, e) ==
    /\ clients[c].readyState = "OPEN"
    /\ lastMsg' = [ NoMsg EXCEPT !.type = "speed_bump_detected", !.from = c,
                                 !.sessionId = s, !.event = e ]
    /\ sent' = BroadcastToAll([ NoMsg EXCEPT !.type = "community_speed_bump", !.from = c,
                                             !.sessionId = s, !.event = e ])
               \cup { Envelope(c, [ NoMsg EXCEPT !.type = "speed_bump_reported" ]) }
    /\ UNCHANGED << clients, aggVars, detVars, cliVars >>

\* handleSessionUpdate(ws, message, wss)
HandleSessionUpdateNoAck(c, s, st) ==
    /\ clients[c].readyState = "OPEN"
    /\ clients' = [ clients EXCEPT ![c].sessionId = s ]
    /\ lastMsg' = [ NoMsg EXCEPT !.type = "session_update", !.from = c, !.sessionId = s,
                                 !.status = st ]
    /\ sent' = BroadcastToOthers(c, [ NoMsg EXCEPT !.type = "session_status", !.from = c,
                                                   !.sessionId = s, !.status = st ])
    /\ UNCHANGED << aggVars, detVars, cliVars >>
HandleSessionUpdate(c, s, st) ==
    /\ clients[c].readyState = "OPEN"
    /\ clients' = [ clients EXCEPT ![c].sessionId = s ]
    /\ lastMsg' = [ NoMsg EXCEPT !.type = "session_update", !.from = c, !.sessionId = s,
                                 !.status = st ]
    /\ sent' = BroadcastToOthers(c, [ NoMsg EXCEPT !.type = "session_status", !.from = c,
                                                   !.sessionId = s, !.status = st ])
               \cup { Envelope(c, [ NoMsg EXCEPT !.type = "session_update_ack",
                                                 !.sessionId = s, !.status = st ]) }
    /\ UNCHANGED << aggVars, detVars, cliVars >>

\* The default case of handleWebSocketMessage (a type the switch does not know,
\* such as join, whatever sessionId it carries) and the catch of
\* ws.on('message') (unparseable data): an error envelope to the sender.
HandleOtherToAll(c, t, s) ==
    /\ clients[c].readyState = "OPEN"
    /\ lastMsg' = [ NoMsg EXCEPT !.type = t, !.from = c, !.sessionId = s ]
    /\ sent' = BroadcastToAll([ NoMsg EXCEPT !.type = "error" ])
    /\ UNCHANGED << clients, aggVars, detVars, cliVars >>
HandleOther(c, t, s) ==
    /\ clients[c].readyState = "OPEN"
    /\ lastMsg' = [ NoMsg EXCEPT !.type = t, !.from = c, !.sessionId = s ]
    /\ sent' = { Envelope(c, [ NoMsg EXCEPT !.type = "error" ]) }
    /\ UNCHANGED << clients, aggVars, detVars, cliVars >>

\* ws.on('pong'): the client answers the probe of the last heartbeat.
Pong(c) ==
    /\ clients[c].readyState = "OPEN"
    /\ ~ clients[c].isAlive
    /\ clients' = [ clients EXCEPT ![c].isAlive = TRUE ]
    /\ lastMsg' = [ NoMsg EXCEPT !.type = "pong", !.from = c ]
    /\ sent' = {}
    /\ UNCHANGED << aggVars, detVars, cliVars >>

\* One run of the heartbeat interval over wss.clients: a socket whose isAlive is
\* false is terminated (readyState CLOSING until its close event), any other is
\* marked not alive and pinged (a ping reaches an OPEN socket only).
HeartbeatPingOnly ==
    /\ WssClients # {}
    /\ clients' = [ c \in Conns |->
                      IF c \in WssClients THEN [ clients[c] EXCEPT !.isAlive = FALSE ]
                                          ELSE clients[c] ]
    /\ lastMsg' = [ NoMsg EXCEPT !.type = "heartbeat" ]
    /\ sent' = { Envelope(c, [ NoMsg EXCEPT !.type = "ping" ]) :
                   c \in { d \in WssClients : clients[d].readyState = "OPEN" } }
    /\ UNCHANGED << aggVars, detVars, cliVars >>
Heartbeat ==
    /\ WssClients # {}
    /\ clients' = [ c \in Conns |->
                      IF c \notin WssClients THEN clients[c]
                      ELSE IF ~ clients[c].isAlive
                             THEN [ clients[c] EXCEPT !.readyState = "CLOSING" ]
                             ELSE [ clients[c] EXCEPT !.isAlive = FALSE ] ]
    /\ lastMsg' = [ NoMsg EXCEPT !.type = "heartbeat" ]
    /\ sent' = { Envelope(c, [ NoMsg EXCEPT !.type = "ping" ]) :
                   c \in { d \in WssClients : /\ clients[d].isAlive
                                               /\ clients[d].readyState = "OPEN" } }
    /\ UNCHANGED << aggVars, detVars, cliVars >>

NextHub ==
    \/ \E c \in Conns :
        \/ Connection(c)
        \/ Closing(c)
        \/ Close(c)
        \/ \E s \in Sessions : HandleLocationUpdate(c, s)
        \/ \E s \in Sessions, e \in HubEvents : HandleSpeedBumpDetection(c, s, e)
        \/ \E s \in Sessions, st \in Statuses : HandleSessionUpdate(c, s, st)
        \/ \E s \in Sessions : HandleOther(c, "join", s)
        \/ \E t \in { "unknown", "unparseable" } : HandleOther(c, t, "none")
        \/ Pong(c)
    \/ Heartbeat

SpecHub == Init /\ [][NextHub]_vars

\* The whole pipeline: events reach the server as HTTP submissions (handled one
\* at a time) and as speed_bump_detected messages on the hub.
NextPipeline ==
    \/ \E p \in Procs :
        \/ \E e \in HubEvents : ReceiveSeq(p, e)
        \/ DoLookup(p)
        \/ Write(p)
        \/ ContributeToTrafficData(p)
    \/ \E c \in Conns :
        \/ Connection(c)
        \/ Close(c)
        \/ \E s \in Sessions, e \in HubEvents : HandleSpeedBumpDetection(c, s, e)

SpecPipeline == Init /\ [][NextPipeline]_vars

-----------------------------------------------------------------------------
(* Motion event detector: AccelerometerProvider *)

\* Math.sqrt, to the integer below.
RECURSIVE IsqrtBetween(_, _, _)
IsqrtBetween(n, lo, hi) ==
    IF lo = hi THEN lo
    ELSE LET mid == (lo + hi + 1) \div 2
         IN  IF mid * mid <= n THEN IsqrtBetween(n, mid, hi)
                               ELSE IsqrtBetween(n, lo, mid - 1)
Isqrt(n) == IsqrtBetween(n, 0, 46340)

\* The magnitude of reading v calibrated with baseline b, to the integer below
\* (exact for the readings used with the default baseline).
Magnitude(v, b) ==
    Isqrt((v.x * b.d - b.x) * (v.x * b.d - b.x) + (v.y * b.d - b.y) * (v.y * b.d - b.y)
          + (v.z * b.d - b.z) * (v.z * b.d - b.z)) \div b.d

RECURSIVE SumSeq(_)
SumSeq(q) == IF q = << >> THEN 0 ELSE Head(q) + SumSeq(Tail(q))

\* q.slice(-k)
LastN(q, k) == IF Len(q) <= k THEN q ELSE SubSeq(q, Len(q) - k + 1, Len(q))

\* analyzeForSpeedBump as the closure h runs it at time t: the cooldown, the
\* buffer and the sensitivity are the values h captured when it was created.
\* data.magnitude > avgRecent * 1.5 with avgRecent = sum / 5 is 10 * magnitude >
\* 3 * sum.
AnalyzeForSpeedBump(h, mag, t) ==
    /\ ~ (t - h.lastSig < detectionCooldown)
    /\ mag > h.sensitivity
    /\ Len(h.buffer) >= RecentWindow
    /\ 2 * RecentWindow * mag > 3 * SumSeq(LastN(h.buffer, RecentWindow))

\* handleDeviceMotion as the closure h runs it on reading v at time t, on the
\* provider state st: the buffered sample, then the analysis, then
\* detectSpeedBump's position request and setLastSignificantMovement(now).
\* Each request carries data.magnitude and data.timestamp, and (history) the
\* number of the detection and the sensitivity the provider holds when the
\* sample arrives.
HandleDeviceMotion(h, v, t, st) ==
    LET mag == Magnitude(v, h.baseline)
        detected == AnalyzeForSpeedBump(h, mag, t)
    IN  [ buffer |-> LastN(Append(st.buffer, mag), bufferSize),
          lastSig |-> IF detected THEN t ELSE st.lastSig,
          requests |-> IF detected
                         THEN Append(st.requests,
                                     [ id |-> Len(st.requests) + Len(emitted)
                                                + Len(discarded) + 1,
                                       timestamp |-> t, magnitude |-> mag,
                                       configured |-> sensitivity ])
                         ELSE st.requests ]

\* The devicemotion event dispatched to the registered closures in order.
RECURSIVE Dispatch(_, _, _, _)
Dispatch(ls, v, t, st) ==
    IF ls = << >> THEN st
    ELSE Dispatch(Tail(ls), v, t, HandleDeviceMotion(Head(ls), v, t, st))

\* window.addEventListener / removeEventListener: by function identity.
AddListener(ls, h) ==
    IF \E i \in 1..Len(ls) : ls[i].id = h.id THEN ls ELSE Append(ls, h)
RemoveListener(ls, h) == SelectSeq(ls, LAMBDA l : l.id # h.id)

\* useCallback(handleDeviceMotion, [baseline, sensitivity]) at the render that
\* follows a step: a new closure when setBaseline was called or the sensitivity
\* changed, capturing that render's analyzeForSpeedBump (its buffer and its
\* lastSignificantMovement); otherwise the memoized one.
Render(baselineSet, b, sens, buf, lastSig) ==
    IF baselineSet \/ sens # sensitivity
      THEN [ id |-> handleDeviceMotion.id + 1, baseline |-> b, sensitivity |-> sens,
             buffer |-> buf, lastSig |-> lastSig ]
      ELSE handleDeviceMotion

\* The average of the collected calibration samples, per axis: sum / length.
Mean(c) == [ x |-> c.sum.x, y |-> c.sum.y, z |-> c.sum.z, d |-> c.n ]

\* startMonitoring(): with isCalibrated it registers the handleDeviceMotion of
\* the render it was called in; otherwise it first awaits calibrate() and then
\* registers that same closure.  The tracking page offers Start only while no
\* session runs (TrackingPage.tsx 312-322), so calls do not overlap.
StartMonitoring ==
    /\ ~ isMonitoring
    /\ ~ starting.active
    /\ calibration.phase = "idle"
    /\ IF isCalibrated
         THEN /\ listeners' = AddListener(listeners, handleDeviceMotion)
              /\ isMonitoring' = TRUE
              /\ UNCHANGED << calibration, starting >>
         ELSE /\ calibration' = [ NoCalibration EXCEPT !.phase = "collecting",
                                                      !.deadline = now + CalibrationTimeout ]
              /\ starting' = [ active |-> TRUE, handler |-> handleDeviceMotion ]
              /\ UNCHANGED << listeners, isMonitoring >>
    /\ UNCHANGED << now, isCalibrated, currentData, baseline, sensitivity, lastSignificantMovement,
                    movementBuffer, handleDeviceMotion, positionRequests, emitted, discarded,
                    samples, aggVars, hubVars, cliVars >>

\* stopMonitoring(): removes the handleDeviceMotion of the current render, which
\* is the registered closure only if neither the baseline nor the sensitivity
\* changed since it was registered.
StopMonitoring ==
    /\ isMonitoring
    /\ listeners' = RemoveListener(listeners, handleDeviceMotion)
    /\ isMonitoring' = FALSE
    /\ currentData' = FALSE
    /\ UNCHANGED << now, isCalibrated, baseline, sensitivity, lastSignificantMovement,
                    movementBuffer, handleDeviceMotion, calibration, starting,
                    positionRequests, emitted, discarded, samples, aggVars, hubVars, cliVars >>

\* setSensitivity(value) from the slider, which the tracking page shows while a
\* sample is on display (TrackingPage.tsx 247-262).
SetSensitivityClearsBuffer(value) ==
    /\ currentData
    /\ value # sensitivity
    /\ handleDeviceMotion.id < MaxHandlers
    /\ sensitivity' = value
    /\ movementBuffer' = << >>
    /\ handleDeviceMotion' = Render(FALSE, baseline, value, << >>, lastSignificantMovement)
    /\ UNCHANGED << now, isMonitoring, isCalibrated, currentData, baseline, lastSignificantMovement,
                    listeners, calibration, starting, positionRequests,
                    emitted, discarded, samples, aggVars, hubVars, cliVars >>
SetSensitivity(value) ==
    /\ currentData
    /\ value # sensitivity
    /\ handleDeviceMotion.id < MaxHandlers
    /\ sensitivity' = value
    /\ handleDeviceMotion' =
           Render(FALSE, baseline, value, movementBuffer, lastSignificantMovement)
    /\ UNCHANGED << now, isMonitoring, isCalibrated, currentData, baseline, lastSignificantMovement,
                    movementBuffer, listeners, calibration, starting, positionRequests,
                    emitted, discarded, samples, aggVars, hubVars, cliVars >>

\* One devicemotion event: calibrationHandler while a calibration collects, and
\* every registered handleDeviceMotion closure.  Reaching sampleCount commits
\* the baseline and resolves calibrate(), which lets a waiting startMonitoring
\* register its closure.
DeviceMotion(v) ==
    /\ listeners # << >> \/ calibration.phase = "collecting"
    /\ samples' = samples + 1
    /\ LET collecting == calibration.phase = "collecting"
           cal == IF collecting
                    THEN [ calibration EXCEPT !.n = @ + 1,
                                              !.sum = [ x |-> @.x + v.x, y |-> @.y + v.y,
                                                        z |-> @.z + v.z ] ]
                    ELSE calibration
           full == collecting /\ cal.n >= sampleCount
           st == Dispatch(listeners, v, now,
                          [ buffer |-> movementBuffer, lastSig |-> lastSignificantMovement,
                            requests |-> positionRequests ])
           b == IF full THEN Mean(cal) ELSE baseline
       IN  /\ calibration' = IF full THEN [ cal EXCEPT !.phase = "resolved" ] ELSE cal
           /\ baseline' = b
           /\ isCalibrated' = (isCalibrated \/ full)
           /\ currentData' = (currentData \/ listeners # << >>)
           /\ movementBuffer' = st.buffer
           /\ lastSignificantMovement' = st.lastSig
           /\ positionRequests' = st.requests
           /\ handleDeviceMotion' = Render(full, b, sensitivity, st.buffer, st.lastSig)
           /\ IF full /\ starting.active
                THEN /\ listeners' = AddListener(listeners, starting.handler)
                     /\ isMonitoring' = TRUE
                     /\ starting' = NotStarting
                ELSE UNCHANGED << listeners, isMonitoring, starting >>
    /\ UNCHANGED << now, sensitivity, emitted, discarded, aggVars, hubVars, cliVars >>

\* The timeout fallback of calibrate(): with more than 10 samples it commits
\* their mean, otherwise it keeps the default values; it resolves calibrate().
CalibrationTimeoutFires ==
    /\ calibration.phase \in { "collecting", "resolved" }
    /\ now >= calibration.deadline
    /\ LET commit == calibration.n > MinTimeoutSamples
           b == IF commit THEN Mean(calibration) ELSE baseline
       IN  /\ baseline' = b
           /\ isCalibrated' = (isCalibrated \/ commit)
           /\ handleDeviceMotion' =
                  Render(commit, b, sensitivity, movementBuffer, lastSignificantMovement)
    /\ calibration' = NoCalibration
    /\ IF starting.active
         THEN /\ listeners' = AddListener(listeners, starting.handler)
              /\ isMonitoring' = TRUE
              /\ starting' = NotStarting
         ELSE UNCHANGED << listeners, isMonitoring, starting >>
    /\ UNCHANGED << now, currentData, sensitivity, lastSignificantMovement,
                    movementBuffer, positionRequests, emitted, discarded, samples, aggVars, hubVars, cliVars >>

\* The success callback of getCurrentPosition for request i: the detection is
\* built and sent with sendSpeedBumpDetection (id, magnitude and configured are
\* history fields, not part of the message).
PositionSuccess(i) ==
    /\ i \in 1..Len(positionRequests)
    /\ emitted' = Append(emitted,
           [ latitude |-> PA[1], longitude |-> PA[2],
             intensity |-> IF Round(positionRequests[i].magnitude, 100) < 10
                             THEN Round(positionRequests[i].magnitude, 100) ELSE 10,
             timestamp |-> positionRequests[i].timestamp,
             id |-> positionRequests[i].id,
             magnitude |-> positionRequests[i].magnitude,
             configured |-> positionRequests[i].configured ])
    /\ positionRequests' = [ k \in 1..(Len(positionRequests) - 1) |->
                               IF k < i THEN positionRequests[k] ELSE positionRequests[k + 1] ]
    /\ UNCHANGED << now, isMonitoring, isCalibrated, currentData, baseline, sensitivity,
                    lastSignificantMovement, movementBuffer, handleDeviceMotion, listeners,
                    calibration, starting, discarded, samples, aggVars, hubVars, cliVars >>

\* The error callback of getCurrentPosition for request i: nothing is sent.
PositionErrorRetry(i) ==
    /\ i \in 1..Len(positionRequests)
    /\ Len(discarded) < MaxSamples
    /\ discarded' = Append(discarded, positionRequests[i])
    /\ UNCHANGED << now, isMonitoring, isCalibrated, currentData, baseline, sensitivity,
                    lastSignificantMovement, movementBuffer, handleDeviceMotion, listeners,
                    calibration, starting, positionRequests, emitted, samples,
                    aggVars, hubVars, cliVars >>
PositionError(i) ==
    /\ i \in 1..Len(positionRequests)
    /\ discarded' = Append(discarded, positionRequests[i])
    /\ positionRequests' = [ k \in 1..(Len(positionRequests) - 1) |->
                               IF k < i THEN positionRequests[k] ELSE positionRequests[k + 1] ]
    /\ UNCHANGED << now, isMonitoring, isCalibrated, currentData, baseline, sensitivity,
                    lastSignificantMovement, movementBuffer, handleDeviceMotion, listeners,
                    calibration, starting, emitted, samples, aggVars, hubVars, cliVars >>

\* Time passes; a due calibration timeout fires before the clock moves on.
Tick ==
    /\ now < StartTime + MaxTicks * TickMs
    /\ ~ (calibration.phase # "idle" /\ now >= calibration.deadline)
    /\ now' = now + TickMs
    /\ UNCHANGED << isMonitoring, isCalibrated, currentData, baseline, sensitivity,
                    lastSignificantMovement, movementBuffer, handleDeviceMotion, listeners,
                    calibration, starting, positionRequests, emitted, discarded, samples,
                    aggVars, hubVars, cliVars >>

NextDetector ==
    \/ StartMonitoring
    \/ StopMonitoring
    \/ \E value \in Sensitivities : SetSensitivity(value)
    \/ \E v \in Readings : samples < MaxSamples /\ DeviceMotion(v)
    \/ CalibrationTimeoutFires
    \/ \E i \in 1..MaxSamples : PositionSuccess(i)
    \/ \E i \in 1..MaxSamples : PositionError(i)
    \/ Tick

SpecDetector == Init /\ [][NextDetector]_vars

\* The provider as a user drives it who only ever lowers the sensitivity.
NextReporting ==
    \/ StartMonitoring
    \/ StopMonitoring
    \/ SetSensitivity(150)
    \/ \E v \in Readings : samples < MaxSamples /\ DeviceMotion(v)
    \/ CalibrationTimeoutFires
    \/ \E i \in 1..MaxSamples : PositionSuccess(i)
    \/ \E i \in 1..MaxSamples : PositionError(i)
    \/ Tick

SpecReporting == Init /\ [][NextReporting]_vars

\* The provider on a device that rests until five samples are buffered and is
\* jolted from then on, while the position requests of its detections stay
\* unanswered.
NextTuning ==
    \/ StartMonitoring
    \/ StopMonitoring
    \/ \E value \in Sensitivities : SetSensitivity(value)
    \/ \E v \in Readings :
          /\ samples < MaxSamples
          /\ (v = Rest) = (Len(movementBuffer) < RecentWindow)
          /\ DeviceMotion(v)
    \/ CalibrationTimeoutFires
    \/ Tick

SpecTuning == Init /\ [][NextTuning]_vars

\* One startMonitoring call and the calibrate() run it awaits, with samples
\* arriving until the run resolves.
NextCalibration ==
    \/ StartMonitoring
    \/ \E v \in Readings :
          /\ samples < MaxCalibrationSamples
          /\ calibration.phase = "collecting"
          /\ DeviceMotion(v)
    \/ CalibrationTimeoutFires
    \/ Tick

SpecCalibration == Init /\ [][NextCalibration]_vars

-----------------------------------------------------------------------------
(* Hub client: WebSocketProvider *)

\* websocket.onopen
OnOpen ==
    /\ ws.readyState = "CONNECTING"
    /\ ws' = [ ws EXCEPT !.readyState = "OPEN" ]
    /\ isConnected' = TRUE
    /\ connectionStatus' = "connected"
    /\ reconnectAttempts' = 0
    /\ reconnects' = 0
    /\ UNCHANGED << reconnectTimer, sockets, aggVars, hubVars, detVars >>

\* websocket.onerror: a failed or broken connection; the close event follows.
OnError ==
    /\ ws.readyState \in { "CONNECTING", "OPEN" }
    /\ connectionStatus # "error"
    /\ connectionStatus' = "error"
    /\ isConnected' = FALSE
    /\ UNCHANGED << ws, reconnectAttempts, reconnectTimer, reconnects, sockets, aggVars, hubVars,
                    detVars >>

\* scheduleReconnect() of closure c: the new reconnectAttempts and the timer.
ScheduleReconnect(c) ==
    IF c.reconnectAttempts >= maxReconnectAttempts
      THEN [ reconnectAttempts |-> reconnectAttempts, timer |-> reconnectTimer ]
      ELSE [ reconnectAttempts |-> reconnectAttempts + 1,
             timer |-> [ pending |-> TRUE, closure |-> c ] ]

\* websocket.onclose, as the closure that created the socket runs it: its
\* reconnectAttempts is the value that closure captured.
OnClose(wasClean) ==
    /\ ws.readyState \in { "CONNECTING", "OPEN" }
    /\ ws' = [ ws EXCEPT !.readyState = "CLOSED" ]
    /\ isConnected' = FALSE
    /\ connectionStatus' = "disconnected"
    /\ LET retry == ~ wasClean /\ ws.closure.reconnectAttempts < maxReconnectAttempts
           r == ScheduleReconnect(ws.closure)
       IN  /\ reconnectAttempts' = IF retry THEN r.reconnectAttempts ELSE reconnectAttempts
           /\ reconnectTimer' = IF retry THEN r.timer ELSE reconnectTimer
    /\ UNCHANGED << reconnects, sockets, aggVars, hubVars, detVars >>

\* The timer of scheduleReconnect fires and calls the connect() of its closure:
\* unless the ws that closure captured is connecting or open, a new WebSocket
\* is created whose handlers belong to the same closure.
ReconnectTimerFires ==
    /\ reconnectTimer.pending
    /\ sockets < MaxSockets
    /\ reconnectTimer' = NoTimer
    /\ IF reconnectTimer.closure.ws \in { "CONNECTING", "OPEN" }
         THEN UNCHANGED << ws, connectionStatus, reconnects, sockets >>
         ELSE /\ ws' = [ readyState |-> "CONNECTING", closure |-> reconnectTimer.closure ]
              /\ connectionStatus' = "connecting"
              /\ reconnects' = reconnects + 1
              /\ sockets' = sockets + 1
    /\ UNCHANGED << isConnected, reconnectAttempts, aggVars, hubVars, detVars >>

NextClient ==
    \/ OnOpen
    \/ OnError
    \/ \E wasClean \in BOOLEAN : OnClose(wasClean)
    \/ ReconnectTimerFires

SpecClient == Init /\ [][NextClient]_vars

-----------------------------------------------------------------------------
(* Claims about the aggregation engine *)

\* The rows inside the +-0.0005 degree box of event e, written out from the
\* claim's words.
BoxOf(rows, e) ==
    { i \in 1..Len(rows) : /\ Abs(rows[i].latitude - e.latitude) < 50
                           /\ Abs(rows[i].longitude - e.longitude) < 50 }

\* The step in which handler p completes its INSERT or UPDATE.
MergeStep(p) == pc[p] = "write" /\ pc'[p] = "traffic"

\* C1: with submissions processed one at a time from an empty table, any two
\* distinct CommunityRecords are at least the merge radius (50 m) apart.
C1_RadiusInvariant ==
    \A i, j \in 1..Len(records) :
        i # j => Distance2(records[i], records[j]) >= MergeRadiusCm * MergeRadiusCm

\* C2: under any interleaving of concurrent submissions, no two records are
\* created for the same location: no record lies in the match box of another.
C2_NoDoubleInsert ==
    \A i, j \in 1..Len(records) :
        i # j => ~ InMatchBox(records[i], records[j].latitude, records[j].longitude)

\* C3: a submission that matches a record changes that record to
\* intensity = round((oldIntensity * oldVerifiedCount + event.intensity) /
\* (oldVerifiedCount + 1)) and verifiedCount = oldVerifiedCount + 1, and changes
\* no other record.
C3_ReinforceFormula ==
    [][ \A p \in Procs :
          (MergeStep(p) /\ existing[p] # None) =>
              LET id == existing[p].id
                  old == records[id]
              IN  /\ Len(records') = Len(records)
                  /\ records'[id].intensity =
                         Round(old.intensity * old.verified_count + ev[p].intensity,
                               old.verified_count + 1)
                  /\ records'[id].verified_count = old.verified_count + 1
                  /\ \A k \in 1..Len(records) : k # id => records'[k] = records[k]
      ]_vars

\* C4: a record created with intensity i0 and reinforced with i1..iN has
\* intensity round(mean(i0, i1, ..., iN)).
C4_CumulativeMean ==
    \A i \in 1..Len(records) :
        records[i].intensity = Round(contributed[i], records[i].verified_count)

\* C5: a submission returns created with verifications = 1 exactly when no
\* record lies within the match box of the event, and otherwise returns
\* verified with verifications = the matched record's previous verifiedCount
\* plus one; event A (37.7750, -122.4194, 6) on an empty table is created with
\* verifications 1, and event B (37.77502, -122.41941, 8) after it is verified
\* with verifications 2 and merged intensity 7.
C5_SubmitResult ==
    [][ \A p \in Procs :
          MergeStep(p) =>
              LET e == ev[p]
                  box == BoxOf(records, e)
              IN  /\ (box = {}) <=> (resp'[p].kind = "created")
                  /\ (box # {}) <=> (resp'[p].kind = "verified")
                  /\ box = {} =>
                        /\ resp'[p].verifications = 1
                        /\ records' = Append(records,
                               [ latitude |-> e.latitude, longitude |-> e.longitude,
                                 intensity |-> e.intensity, verified_count |-> 1 ])
                  /\ box # {} =>
                        \E i \in box :
                            /\ resp'[p].verifications = records[i].verified_count + 1
                            /\ records'[i].verified_count = records[i].verified_count + 1
                            /\ Len(records') = Len(records)
                  /\ (records = << >> /\ e = [ latitude |-> 3777500, longitude |-> -12241940,
                                                intensity |-> 6 ]) =>
                        resp'[p] = [ kind |-> "created", verifications |-> 1 ]
                  /\ ( /\ records = << [ latitude |-> 3777500, longitude |-> -12241940,
                                         intensity |-> 6, verified_count |-> 1 ] >>
                       /\ e = [ latitude |-> 3777502, longitude |-> -12241941,
                                intensity |-> 8 ] ) =>
                        /\ resp'[p] = [ kind |-> "verified", verifications |-> 2 ]
                        /\ records'[1].intensity = 7
      ]_vars

\* C5 witness: event B has just been merged into the record event A created.
C5_Witness ==
    \E p \in Procs :
        /\ pc[p] = "traffic"
        /\ ev[p] = [ latitude |-> 3777502, longitude |-> -12241941, intensity |-> 8 ]
        /\ resp[p] = [ kind |-> "verified", verifications |-> 2 ]
        /\ records = << [ latitude |-> 3777500, longitude |-> -12241940,
                          intensity |-> 7, verified_count |-> 2 ] >>

\* |dlat| + |dlon| between row r and event e, written out from the claim's words.
DegreeDistance(r, e) ==
    (IF r.latitude < e.latitude THEN e.latitude - r.latitude ELSE r.latitude - e.latitude)
    + (IF r.longitude < e.longitude THEN e.longitude - r.longitude
                                    ELSE r.longitude - e.longitude)

C19_TieReached ==
    /\ Len(records) = 2
    /\ records[1].longitude = -12241889 /\ records[2].longitude = -12241941
    /\ records[1].verified_count = 2
    /\ \E p \in Procs : pc[p] = "traffic" /\ ev[p].longitude = -12241916

RECURSIVE SumOfCounts(_)
SumOfCounts(rows) ==
    IF rows = << >> THEN 0 ELSE Head(rows).verified_count + SumOfCounts(Tail(rows))

\* The step in which handler p finishes an accepted submission.
FinishStep(p) == pc[p] = "traffic" /\ pc'[p] = "idle"

\* C20: every accepted submission, reinforcing or creating, appends exactly one
\* TrafficSample at the event's location as its last step, and no step changes
\* or removes an existing TrafficSample: the samples are as many as the merges
\* whose handler has finished.
C20_OneTrafficSamplePerSubmission ==
    [][ /\ \A p \in Procs :
             FinishStep(p) =>
                 /\ resp[p].kind \in { "created", "verified" }
                 /\ traffic' = Append(traffic, [ latitude |-> ev[p].latitude,
                                                 longitude |-> ev[p].longitude,
                                                 speed |-> 0 ])
        /\ (\A p \in Procs : ~ FinishStep(p)) => traffic' = traffic
        /\ Len(traffic') + Cardinality({ p \in Procs : pc'[p] = "traffic" })
               = SumOfCounts(records')
      ]_vars

\* C20 witness: two submissions have finished, the first created a record and
\* the second reinforced it, and each left one sample at its own location.
C20_Witness ==
    /\ \A p \in Procs : pc[p] = "idle"
    /\ Len(records) = 1 /\ records[1].verified_count = 2
    /\ Len(traffic) = 2
    /\ traffic[1].latitude = 3777500 /\ traffic[1].longitude = -12241940
    /\ traffic[2].latitude = 3777502 /\ traffic[2].longitude = -12241941

\* C21: when a query is answered, for every event submitted before it whose
\* coordinate lies inside the query's bounding box the response holds a row
\* whose rounded coordinates are the event's coordinates rounded to 4 decimal
\* places.
C21_RoundTrip ==
    [][ listing' # listing =>
          \A e \in merged :
              InBox(e, listing'.box) =>
                  \E g \in listing'.rows : /\ g.latitude = Round4(e.latitude)
                                           /\ g.longitude = Round4(e.longitude) ]_vars

\* C26: the verifications value a reinforcing submission returns is the
\* verified_count its record holds right after that submission's own UPDATE.
C26_VerificationsIsStoredCount ==
    [][ \A p \in Procs :
          (MergeStep(p) /\ existing[p] # None) =>
              resp'[p].verifications = records'[existing[p].id].verified_count ]_vars

\* C27: whenever no submission is in flight the verified_counts of all records
\* add up to the number of merges completed; every record has a verified_count
\* of at least 1; and no step removes a record or lowers a verified_count.
C27_NoReinforcementLost ==
    [][ /\ (\A p \in Procs : pc'[p] = "idle") => SumOfCounts(records') = merges'
        /\ \A i \in 1..Len(records') : records'[i].verified_count >= 1
        /\ Len(records') >= Len(records)
        /\ \A i \in 1..Len(records) :
              records'[i].verified_count >= records[i].verified_count ]_vars

\* C27 witness: no submission is in flight, and the last two were reinforcements
\* of the same record that both looked it up before either updated it: both
\* were answered with the same verifications value.
C27_Witness ==
    /\ \A p \in Procs : pc[p] = "idle"
    /\ \A p \in Procs : resp[p].kind = "verified"
    /\ \A p, q \in Procs : resp[p].verifications = resp[q].verifications
    /\ Len(records) = 1
    /\ records[1].verified_count = resp["r1"].verifications + 1
    /\ merges = MaxSubmissions

\* A field of a request body that is missing or zero.
MissingOrZero(x) == x \in { Undefined, 0 }

\* C30: a submission is rejected exactly when its latitude, longitude or
\* intensity is missing or zero; a rejected submission changes neither table
\* and starts no handler; every other submission goes on to the lookup, and the
\* step after its lookup merges its event.
C30_RejectedExactlyWhenIncomplete ==
    [][ /\ \A p \in Procs : \A e \in Bodies :
              Receive(p, e) =>
                  LET rejected == resp'[p].kind = "rejected"
                  IN  /\ rejected <=> \/ MissingOrZero(e.latitude)
                                       \/ MissingOrZero(e.longitude)
                                       \/ MissingOrZero(e.intensity)
                      /\ rejected => /\ records' = records
                                      /\ traffic' = traffic
                                      /\ pc'[p] = "idle"
                      /\ ~ rejected => pc'[p] = "lookup" /\ ev'[p] = e
        /\ \A p \in Procs :
              (pc[p] = "write" /\ pc'[p] # "write") =>
                  /\ merges' = merges + 1
                  /\ ev[p] \in merged'
                  /\ SumOfCounts(records') = SumOfCounts(records) + 1 ]_vars

\* C30 witness: every handler's last submission was rejected, after an earlier
\* submission had created a record, and both tables hold that submission's row.
C30_Witness ==
    /\ \A p \in Procs : resp[p].kind = "rejected" /\ pc[p] = "idle"
    /\ submitted = MaxSubmissions
    /\ Len(records) = 1
    /\ Len(traffic) = 1

-----------------------------------------------------------------------------
(* Claims about the fan-out hub *)

\* The envelopes the last hub step sent to connection d.
SentTo(d) == { m \in sent : m.to = d }

\* The connections other than the sender that are open.
OtherOpen(sender) == { d \in Conns \ { sender } : clients[d].readyState = "OPEN" }

\* C6: a location_update or session_update is relayed only to connections
\* whose current sessionId equals the sender's current sessionId.
C6_SessionScoped ==
    \A m \in sent :
        m.type \in { "live_location", "session_status" } =>
            /\ clients[m.from].sessionId = m.sessionId
            /\ clients[m.to].sessionId = clients[m.from].sessionId

\* C7: a speed_bump_detected message is relayed to every other connection that
\* is open at that moment, whatever the sessionId of the sender, of the message
\* or of the recipient.
C7_GlobalBroadcast ==
    lastMsg.type = "speed_bump_detected" =>
        \A d \in OtherOpen(lastMsg.from) :
            \E m \in SentTo(d) :
                /\ m.type = "community_speed_bump"
                /\ m.from = lastMsg.from
                /\ m.event = lastMsg.event

\* C7 witness: a speed bump was relayed while the two other connections are open
\* in sessions different from each other and from the sender's.
C7_Witness ==
    /\ lastMsg.type = "speed_bump_detected"
    /\ \E d1, d2 \in OtherOpen(lastMsg.from) :
          /\ clients[d1].sessionId # clients[d2].sessionId
          /\ clients[d1].sessionId # clients[lastMsg.from].sessionId
          /\ clients[d2].sessionId # clients[lastMsg.from].sessionId
          /\ clients[d1].sessionId # lastMsg.sessionId
          /\ \E m \in SentTo(d1) : m.type = "community_speed_bump"

\* C8 as stated: on a speed_bump_detected message the sender receives only its
\* acknowledgment, not the broadcast, and the other open clients receive the
\* broadcast.
C8_SenderGetsOnlyAck ==
    lastMsg.type = "speed_bump_detected" =>
        /\ \A m \in SentTo(lastMsg.from) : m.type = "speed_bump_reported"
        /\ \E m \in SentTo(lastMsg.from) : m.type = "speed_bump_reported"
        /\ \A d \in OtherOpen(lastMsg.from) :
              \E m \in SentTo(d) : m.type = "community_speed_bump"

\* C8 as amended: on a speed_bump_detected message the sender receives its
\* acknowledgment and the broadcast of its own event, and each other open client
\* receives the broadcast and nothing else.
C8_SenderGetsEchoAndAck ==
    lastMsg.type = "speed_bump_detected" =>
        /\ { m.type : m \in SentTo(lastMsg.from) } =
               { "community_speed_bump", "speed_bump_reported" }
        /\ \A d \in OtherOpen(lastMsg.from) :
              { m.type : m \in SentTo(d) } = { "community_speed_bump" }
        /\ \A m \in sent : m.type = "community_speed_bump" => m.event = lastMsg.event

\* C8 witness: three connected clients, one of which has just sent
\* speed_bump_detected.
C8_Witness ==
    /\ lastMsg.type = "speed_bump_detected"
    /\ \A c \in Conns : clients[c].readyState = "OPEN"
    /\ Cardinality(sent) = 4

\* C9: every community_speed_bump broadcast is for an event the aggregation
\* engine has already merged (a record was created or reinforced for it).
C9_BroadcastAfterMerge ==
    \A m \in sent :
        m.type = "community_speed_bump" =>
            /\ m.event \in merged
            /\ \E i \in 1..Len(records) :
                  InMatchBox(records[i], m.event.latitude, m.event.longitude)

\* The acknowledgment type the hub answers an inbound message type with.
AckOf(t) ==
    CASE t = "location_update" -> "location_update_ack"
      [] t = "speed_bump_detected" -> "speed_bump_reported"
      [] t = "session_update" -> "session_update_ack"

\* C14: every inbound location_update, speed_bump_detected or session_update
\* results in an acknowledgment sent to its sender, whether or not the broadcast
\* reaches any other connection.
C14_AlwaysAcknowledged ==
    lastMsg.type \in { "location_update", "speed_bump_detected", "session_update" } =>
        \E m \in SentTo(lastMsg.from) : m.type = AckOf(lastMsg.type)

\* C14 witness: a session_update was handled while no other connection was open,
\* and all the hub sent is the acknowledgment.
C14_Witness ==
    /\ lastMsg.type = "session_update"
    /\ OtherOpen(lastMsg.from) = {}
    /\ { m.type : m \in sent } = { "session_update_ack" }

\* C15: at a heartbeat, every connection that left the previous probe
\* unanswered is terminated (and, once terminated, stays so at later heartbeats
\* until its close event removes it), while every other connection stays
\* registered, open and in its session, and is probed.
C15_HeartbeatRemovesDead ==
    [][ lastMsg'.type = "heartbeat" =>
          \A c \in Conns :
              /\ (clients[c].readyState = "OPEN" /\ ~ clients[c].isAlive) =>
                     clients'[c].readyState = "CLOSING"
              /\ clients[c].readyState = "CLOSING" => clients'[c].readyState = "CLOSING"
              /\ (clients[c].readyState = "OPEN" /\ clients[c].isAlive) =>
                     /\ clients'[c].readyState = "OPEN"
                     /\ clients'[c].sessionId = clients[c].sessionId
                     /\ \E m \in sent' : m.to = c /\ m.type = "ping"
              /\ clients[c].readyState = "CLOSED" => clients'[c] = clients[c]
      ]_vars

\* C15 witness: after a heartbeat a connection that did not answer is
\* terminated and gets no probe, while another connection, in session s1, is
\* still open and was probed again.
C15_Witness ==
    /\ lastMsg.type = "heartbeat"
    /\ \E c, d \in Conns :
          /\ clients[c].readyState = "CLOSING" /\ ~ clients[c].isAlive
          /\ clients[d].readyState = "OPEN" /\ clients[d].sessionId = "s1"
          /\ \E m \in sent : m.to = d /\ m.type = "ping"
          /\ \A m \in sent : m.to # c

\* C16: a malformed inbound message (unparseable, or of an unknown type) is
\* answered with an error envelope to the sender only: nothing is sent to any
\* other connection and the sender's connection stays open.
C16_MalformedErrorToSenderOnly ==
    lastMsg.type \in { "unknown", "unparseable" } =>
        /\ \A m \in sent : m.to = lastMsg.from /\ m.type = "error"
        /\ \E m \in sent : m.to = lastMsg.from /\ m.type = "error"
        /\ clients[lastMsg.from].readyState = "OPEN"

\* C16 witness: an unparseable message was answered while the two other
\* connections were open.
C16_Witness ==
    /\ lastMsg.type = "unparseable"
    /\ Cardinality(OtherOpen(lastMsg.from)) = 2
    /\ Cardinality(sent) = 1

\* C17: after a join message the connection's sessionId is the one the join
\* carried.
C17_JoinDeclaresSession ==
    lastMsg.type = "join" => clients[lastMsg.from].sessionId = lastMsg.sessionId

\* C23: on a location_update or session_update the sender is sent exactly one
\* message, the acknowledgment, and no relayed live_location or session_status
\* of its own message.
C23_NoEchoToSender ==
    lastMsg.type \in { "location_update", "session_update" } =>
        /\ \A m \in sent :
              m.type \in { "live_location", "session_status" } =>
                  m.from = lastMsg.from /\ m.to # lastMsg.from
        /\ { m.type : m \in SentTo(lastMsg.from) } = { AckOf(lastMsg.type) }
        /\ Cardinality(SentTo(lastMsg.from)) = 1

\* C23 witness: a session_update was relayed to two other open connections, one
\* of them in the sender's session, and the sender was sent one message.
C23_Witness ==
    /\ lastMsg.type = "session_update"
    /\ \E d1, d2 \in OtherOpen(lastMsg.from) :
          /\ d1 # d2
          /\ clients[d1].sessionId = clients[lastMsg.from].sessionId
          /\ \E m \in SentTo(d1) : m.type = "session_status"
          /\ \E m \in SentTo(d2) : m.type = "session_status"
    /\ Cardinality(SentTo(lastMsg.from)) = 1

\* C25: the number of reconnect attempts made in a row, with no successful
\* open between them, never exceeds maxReconnectAttempts.
C25_BoundedRetry == reconnects <= maxReconnectAttempts

-----------------------------------------------------------------------------
(* Claims about the motion event detector *)

\* C10: between any two CandidateEvents emitted by the detector at least the
\* cooldown window (3 s) elapses: of two qualifying samples less than the
\* cooldown apart only the first produces a CandidateEvent.
C10_CooldownBetweenEvents ==
    \A i, j \in 1..Len(emitted) :
        i # j => Abs(emitted[i].timestamp - emitted[j].timestamp) >= detectionCooldown

\* C11: a sample whose calibrated magnitude is not above the sensitivity
\* threshold produces no CandidateEvent: every emitted event comes from a sample
\* whose magnitude exceeded the sensitivity configured when it arrived.
C11_BelowThresholdSilent ==
    \A i \in 1..Len(emitted) : emitted[i].magnitude > emitted[i].configured

\* The step in which a calibrate() run stops collecting: it reached sampleCount,
\* or its timeout fired first.
CalibrateResolves == calibration.phase = "collecting" /\ calibration'.phase # "collecting"

\* The samples that run collected, the one of this step included.
Collected == IF calibration'.phase = "resolved" THEN calibration' ELSE calibration

\* b is the componentwise arithmetic mean of the samples of c: b * n = sum.
IsMeanOf(b, c) ==
    /\ b.d > 0
    /\ b.x * c.n = c.sum.x * b.d
    /\ b.y * c.n = c.sum.y * b.d
    /\ b.z * c.n = c.sum.z * b.d

\* C12: whatever samples a calibrate() run collected, a run cut short by the
\* timeout included, the baseline it leaves is their componentwise arithmetic
\* mean.
C12_BaselineIsMean ==
    [][ (CalibrateResolves /\ Collected.n > 0) => IsMeanOf(baseline', Collected) ]_vars

\* C13: when the timeout fires with fewer than 10 samples collected (at least
\* one), calibrate() commits the mean of the samples it has and sets
\* isCalibrated.
C13_FailsSoft ==
    [][ ( /\ CalibrateResolves
          /\ calibration'.phase = "idle"
          /\ calibration.n \in 1..9 )
        => (isCalibrated' /\ IsMeanOf(baseline', calibration)) ]_vars

C24_ConfirmsExactlyWhen ==
    [][ (samples' = samples + 1 /\ isMonitoring) =>
          LET mag == movementBuffer'[Len(movementBuffer')]
          IN  (Len(positionRequests') > Len(positionRequests)) <=>
                  /\ mag > sensitivity
                  /\ now - lastSignificantMovement >= detectionCooldown
                  /\ Len(movementBuffer) >= RecentWindow
                  /\ 2 * RecentWindow * mag
                         > 3 * SumSeq(LastN(movementBuffer, RecentWindow)) ]_vars

\* C28: once a calibrate() run has committed its baseline by reaching the full
\* sample count, that run does not call setBaseline again: the baseline and the
\* handleDeviceMotion closure that depends on it stay as they are until the run
\* is over.
C28_BaselineWrittenOnce ==
    [][ calibration.phase = "resolved" =>
          /\ baseline' = baseline
          /\ handleDeviceMotion' = handleDeviceMotion ]_vars

\* C29: while monitoring is stopped (stopMonitoring has returned, or
\* startMonitoring was never called, and no startMonitoring call is under way)
\* no sample is processed, no detection is raised and no CandidateEvent is
\* emitted.
C29_StoppedIsSilent ==
    [][ (~ isMonitoring /\ ~ starting.active) =>
          /\ movementBuffer' = movementBuffer
          /\ lastSignificantMovement' = lastSignificantMovement
          /\ positionRequests' = positionRequests \/ Len(positionRequests') < Len(positionRequests)
          /\ emitted' = emitted ]_vars

====
